---- MODULE Spec2Model ----
(***************************************************************************)
(* Pocket Progress: the state machine of the App component.                *)
(*                                                                         *)
(* Two App components exist in the repository: the full single-file        *)
(* component (src/unnamed/part_002) and the component under src/App.jsx,   *)
(* whose load expressions and addEntry differ.  The variable `variant`     *)
(* says which of the two is running.                                       *)
(*                                                                         *)
(* JavaScript values are modelled as follows.                              *)
(*   number            [nan |-> BOOLEAN, v |-> Int]   (NaN has nan = TRUE)  *)
(*   string            a sequence of one-character strings                 *)
(*   string | null     [has |-> BOOLEAN, s |-> string]                     *)
(*   array element     [kind |-> "obj" | "hole" | "null", ...]             *)
(***************************************************************************)
EXTENDS Integers, Sequences, FiniteSets, TLC

(***************************************************************************)
(* Bounds of the model.                                                    *)
(***************************************************************************)
\* new Date() is read at most MaxClock times: at most MaxClock entries are added
MaxClock == 3

\* knob adjustments are followed while the pending value stays within
\* MaxKnob steps of 1000
MaxKnob == 4

\* at most MaxFaults calls of setItem throw
MaxFaults == 1

\* at most MaxCorrupt keys of the store hold a corrupt text at the first launch
MaxCorrupt == 1

(***************************************************************************)
(* JavaScript numbers.                                                     *)
(***************************************************************************)
NaN == [nan |-> TRUE, v |-> 0]

Num(n) == [nan |-> FALSE, v |-> n]

\* a + b
Plus(a, b) == IF a.nan \/ b.nan THEN NaN ELSE Num(a.v + b.v)

\* a - b
Minus(a, b) == IF a.nan \/ b.nan THEN NaN ELSE Num(a.v - b.v)

\* Math.max(a, b): NaN when either argument is NaN
MathMax(a, b) == IF a.nan \/ b.nan THEN NaN ELSE IF a.v >= b.v THEN a ELSE b

\* Math.min(a, b): NaN when either argument is NaN
MathMin(a, b) == IF a.nan \/ b.nan THEN NaN ELSE IF a.v <= b.v THEN a ELSE b

\* Math.round(d / q) for q > 0: halves round towards +Infinity
MathRoundDiv(d, q) == (2 * d + q) \div (2 * q)

\* !x for a number x: 0 and NaN are falsy
Falsy(x) == x.nan \/ x.v = 0

(***************************************************************************)
(* Strings, String(number) and Number(string).                             *)
(***************************************************************************)
Digits == <<"0", "1", "2", "3", "4", "5", "6", "7", "8", "9">>

IsDigit(c) == \E d \in 1..10 : Digits[d] = c

DigitVal(c) == (CHOOSE d \in 1..10 : Digits[d] = c) - 1

RECURSIVE NatToStr(_)
NatToStr(n) ==
    IF n < 10 THEN <<Digits[n + 1]>>
    ELSE NatToStr(n \div 10) \o <<Digits[(n % 10) + 1]>>

\* String(x) for a number x
String(x) ==
    IF x.nan THEN <<"N", "a", "N">>
    ELSE IF x.v < 0 THEN <<"-">> \o NatToStr(-x.v)
    ELSE NatToStr(x.v)

RECURSIVE TrimLeft(_)
TrimLeft(s) == IF s # <<>> /\ Head(s) = " " THEN TrimLeft(Tail(s)) ELSE s

RECURSIVE TrimRight(_)
TrimRight(s) ==
    IF s # <<>> /\ s[Len(s)] = " " THEN TrimRight(SubSeq(s, 1, Len(s) - 1)) ELSE s

\* s.trim()
Trim(s) == TrimRight(TrimLeft(s))

RECURSIVE DigitsToNat(_)
DigitsToNat(s) ==
    IF s = <<>> THEN 0
    ELSE 10 * DigitsToNat(SubSeq(s, 1, Len(s) - 1)) + DigitVal(s[Len(s)])

AllDigits(s) == s # <<>> /\ \A i \in 1..Len(s) : IsDigit(s[i])

\* Number(s) for a string s: white space is trimmed, the empty string is 0,
\* an optionally signed run of digits is its value, anything else is NaN
Number(s) ==
    LET t == Trim(s) IN
    IF t = <<>> THEN Num(0)
    ELSE IF Head(t) \in {"-", "+"} THEN
        IF AllDigits(Tail(t))
        THEN Num(IF Head(t) = "-" THEN -DigitsToNat(Tail(t)) ELSE DigitsToNat(Tail(t)))
        ELSE NaN
    ELSE IF AllDigits(t) THEN Num(DigitsToNat(t))
    ELSE NaN

\* localStorage.getItem: a string, or null for a key that was never set
Null == [has |-> FALSE, s |-> <<>>]

Str(s) == [has |-> TRUE, s |-> s]

\* a string-or-null in a condition: null and "" are falsy
Truthy(raw) == raw.has /\ raw.s # <<>>

\* Number(raw) for a string-or-null: Number(null) is 0
NumberOrNull(raw) == IF raw.has THEN Number(raw.s) ELSE Num(0)

(***************************************************************************)
(* The ledger: a JavaScript array of entry objects.                        *)
(* partName is a string-or-null; date 0 stands for a missing date key.     *)
(***************************************************************************)
Obj(amount, partName, date) ==
    [kind |-> "obj", amount |-> amount, partName |-> partName, date |-> date]

\* an index of the array that holds no element (a sparse array)
Hole == [kind |-> "hole", amount |-> 0, partName |-> Null, date |-> 0]

\* an element that is null
NullElem == [kind |-> "null", amount |-> 0, partName |-> Null, date |-> 0]

\* !ent for entries[idx]: undefined (out of range, a hole) and null are falsy
Missing(arr, idx) == idx < 0 \/ idx >= Len(arr) \/ arr[idx + 1].kind # "obj"

RECURSIVE SumAmounts(_)
SumAmounts(arr) ==
    IF arr = <<>> THEN 0
    ELSE (IF Head(arr).kind = "obj" THEN Head(arr).amount ELSE 0) + SumAmounts(Tail(arr))

\* JSON.stringify(entries): a hole is written as null, a missing date key is
\* not written.  The text is modelled by the list of the items it denotes.
JSONstringify(arr) ==
    [has |-> TRUE, ok |-> TRUE,
     items |-> [i \in 1..Len(arr) |-> IF arr[i].kind = "hole" THEN NullElem ELSE arr[i]]]

\* a stored text that JSON.parse rejects
BadJSON == [has |-> TRUE, ok |-> FALSE, items |-> <<>>]

NoJSON == [has |-> FALSE, ok |-> FALSE, items |-> <<>>]

\* JSON.parse(raw) of a text that parses: the array of its items
JSONparse(raw) == raw.items

(***************************************************************************)
(* Program constants.                                                      *)
(***************************************************************************)
\* the target of a first launch
DefaultTarget == 100000

\* the progress of a first launch
DefaultProgress == 25000

\* the pending value of the knob after a launch and after a commit
DefaultKnob == 1000

\* pixels of horizontal movement per step of the knob
STEP_SIZE == 10

\* the value of one step of the knob
StepValue == 1000

\* the main view renders entries.slice(0, 6)
RecentCount == 6

\* the two App components of the repository
Variants == {"full", "src"}

\* STORAGE_KEYS, in the order of the three persistence effects
STORAGE_KEYS == <<"TARGET", "PROGRESS", "ENTRIES">>

(***************************************************************************)
(* State.                                                                  *)
(***************************************************************************)
VARIABLES
    variant,        \* which App component runs
    stepwise,       \* the granularity of the model: TRUE when each setItem of a
                    \* handler's effects is a step of its own (they run back to
                    \* back, no event comes between them), FALSE when they are
                    \* part of the handler's step
    phase,          \* "running": waiting for an event; "flushing": the effects of
                    \* the last render are running; "down": the component is not
                    \* mounted (not launched, closed, or unmounted by an error)
    dirty,          \* the storage keys whose effect has still to run
    pre,            \* while flushing: the handler that ran and the progress and
                    \* entries it started from
    localStorage,   \* [TARGET, PROGRESS, ENTRIES]: the three stored values
    now,            \* the clock read by new Date()
    faults,         \* the number of setItem calls that have thrown
    targetSum, progress, entries,
    knobValue, pointerActive, lastAngle,
    listening,      \* the window pointermove/pointerup listeners are attached
    pressed,        \* the pointer that went down on the knob is still down (the
                    \* state of the pointer itself, which no code of App holds)
    showSettings,
    editIdx, editAmount, editName,
    showClearAlert,
    alertMsg        \* the text of the alert() raised by the last handler, or <<>>

storeVars == <<localStorage>>
dataVars == <<targetSum, progress, entries>>
knobVars == <<knobValue, pointerActive, lastAngle, listening, pressed>>
editVars == <<editIdx, editAmount, editName>>
vars == <<variant, stepwise, phase, dirty, pre, localStorage, now, faults, targetSum, progress, entries,
          knobValue, pointerActive, lastAngle, listening, pressed, showSettings,
          editIdx, editAmount, editName, showClearAlert, alertMsg>>

\* editIdx === null
NoIdx == -1

\* lastAngle.current === null
NoAngle == -1

NoPre == [op |-> "none", progress |-> Num(0), entries |-> <<>>]

(***************************************************************************)
(* Load: the initial values of the three persistent states.                *)
(***************************************************************************)
\* part_002: raw ? Number(raw) : 100000
LoadTargetFull(raw) == IF Truthy(raw) THEN Number(raw.s) ELSE Num(DefaultTarget)

\* part_002: raw ? Number(raw) : 25000
LoadProgressFull(raw) == IF Truthy(raw) THEN Number(raw.s) ELSE Num(DefaultProgress)

\* part_002: try { raw ? JSON.parse(raw) : [] } catch { [] }
LoadEntriesFull(raw) == IF raw.has /\ raw.ok THEN JSONparse(raw) ELSE <<>>

\* src/App.jsx: Number(getItem(TARGET)) || 100000
LoadTargetSrc(raw) ==
    IF Falsy(NumberOrNull(raw)) THEN Num(DefaultTarget) ELSE NumberOrNull(raw)

\* src/App.jsx: Number(getItem(PROGRESS)) || 25000
LoadProgressSrc(raw) ==
    IF Falsy(NumberOrNull(raw)) THEN Num(DefaultProgress) ELSE NumberOrNull(raw)

\* src/App.jsx: JSON.parse(getItem(ENTRIES) || "[]"), outside any try
LoadEntriesSrc(raw) == IF raw.has THEN JSONparse(raw) ELSE <<>>

\* src/App.jsx: JSON.parse throws in the state initialiser
LoadThrowsSrc(raw) == raw.has /\ ~raw.ok

LoadTarget(v, raw) == IF v = "full" THEN LoadTargetFull(raw) ELSE LoadTargetSrc(raw)

LoadProgress(v, raw) == IF v = "full" THEN LoadProgressFull(raw) ELSE LoadProgressSrc(raw)

LoadEntries(v, raw) == IF v = "full" THEN LoadEntriesFull(raw) ELSE LoadEntriesSrc(raw)

\* part_002 renders e.partName for every element of entries.slice(0, 6) that
\* map visits: a null element throws (holes are skipped).  src/App.jsx renders
\* a placeholder.
RenderThrows(v, arr) ==
    /\ v = "full"
    /\ \E i \in 1..Len(arr) : i <= RecentCount /\ arr[i].kind = "null"

\* the launch fails: the initialiser or the first render throws
LaunchThrows(v, store) ==
    \/ v = "src" /\ LoadThrowsSrc(store.ENTRIES)
    \/ RenderThrows(v, LoadEntries(v, store.ENTRIES))

\* the number of keys of a store that hold a value
Present(store) ==
    Cardinality({k \in {"TARGET", "PROGRESS", "ENTRIES"} : store[k].has})

\* the store before the first launch: each key is absent, or holds a text that
\* is no number / no JSON; at most MaxCorrupt keys hold such a text
FirstStores ==
    {store \in [TARGET : {Null, Str(<<"a", "b", "c">>)},
                PROGRESS : {Null, Str(<<"a", "b", "c">>)},
                ENTRIES : {NoJSON, BadJSON}] : Present(store) <= MaxCorrupt}

(***************************************************************************)
(* Init: the component has been constructed from the store (the state      *)
(* initialisers and the first render have run) and its effects are about   *)
(* to run; or the construction has thrown.                                 *)
(***************************************************************************)
InitWith(g) ==
    /\ variant \in Variants
    /\ stepwise = g
    /\ faults = 0
    /\ localStorage \in FirstStores
    /\ now = 0
    /\ phase = IF LaunchThrows(variant, localStorage) THEN "down" ELSE "flushing"
    /\ dirty = IF LaunchThrows(variant, localStorage) THEN {} ELSE {1, 2, 3}
    /\ targetSum =
         IF LaunchThrows(variant, localStorage) THEN Num(0)
         ELSE LoadTarget(variant, localStorage.TARGET)
    /\ progress =
         IF LaunchThrows(variant, localStorage) THEN Num(0)
         ELSE LoadProgress(variant, localStorage.PROGRESS)
    /\ entries =
         IF LaunchThrows(variant, localStorage) THEN <<>>
         ELSE LoadEntries(variant, localStorage.ENTRIES)
    /\ pre = IF LaunchThrows(variant, localStorage) THEN NoPre
             ELSE [op |-> "mount",
                   progress |-> LoadProgress(variant, localStorage.PROGRESS),
                   entries |-> LoadEntries(variant, localStorage.ENTRIES)]
    /\ knobValue = Num(DefaultKnob)
    /\ pointerActive = FALSE
    /\ lastAngle = NoAngle
    /\ listening = FALSE
    /\ pressed = FALSE
    /\ showSettings = FALSE
    /\ editIdx = NoIdx
    /\ editAmount = <<>>
    /\ editName = <<>>
    /\ showClearAlert = FALSE
    /\ alertMsg = <<>>

\* the page is opened again (after it was closed, or after an error unmounted it)
Launch ==
    /\ phase \in {"running", "down"}
    /\ phase' = IF LaunchThrows(variant, localStorage) THEN "down" ELSE "flushing"
    /\ dirty' = IF LaunchThrows(variant, localStorage) THEN {} ELSE {1, 2, 3}
    /\ targetSum' =
         IF LaunchThrows(variant, localStorage) THEN Num(0)
         ELSE LoadTarget(variant, localStorage.TARGET)
    /\ progress' =
         IF LaunchThrows(variant, localStorage) THEN Num(0)
         ELSE LoadProgress(variant, localStorage.PROGRESS)
    /\ entries' =
         IF LaunchThrows(variant, localStorage) THEN <<>>
         ELSE LoadEntries(variant, localStorage.ENTRIES)
    /\ pre' = IF LaunchThrows(variant, localStorage) THEN NoPre
              ELSE [op |-> "mount",
                    progress |-> LoadProgress(variant, localStorage.PROGRESS),
                    entries |-> LoadEntries(variant, localStorage.ENTRIES)]
    /\ knobValue' = Num(DefaultKnob)
    /\ pointerActive' = FALSE
    /\ lastAngle' = NoAngle
    /\ listening' = FALSE
    /\ pressed' = FALSE
    /\ showSettings' = FALSE
    /\ editIdx' = NoIdx
    /\ editAmount' = <<>>
    /\ editName' = <<>>
    /\ showClearAlert' = FALSE
    /\ alertMsg' = <<>>
    /\ UNCHANGED <<variant, stepwise, faults, localStorage, now>>

(***************************************************************************)
(* The persistence effects: one localStorage.setItem per dirty key, in the *)
(* order TARGET, PROGRESS, ENTRIES.  A setItem may throw (quota); an error *)
(* thrown by an effect unmounts the component.                             *)
(***************************************************************************)
\* the text an effect writes under key k
Persisted(k) ==
    IF k = 1 THEN Str(String(targetSum))
    ELSE IF k = 2 THEN Str(String(progress))
    ELSE JSONstringify(entries)

\* the effects left once key k is written
AfterWrite(k) == dirty \ {k}

\* the effect of key k runs and setItem succeeds
WriteOk(k) ==
    /\ phase = "flushing"
    /\ k \in dirty
    /\ \A j \in dirty : k <= j
    /\ localStorage' = [localStorage EXCEPT ![STORAGE_KEYS[k]] = Persisted(k)]
    /\ dirty' = AfterWrite(k)
    /\ phase' = IF AfterWrite(k) = {} THEN "running" ELSE "flushing"
    /\ pre' = IF AfterWrite(k) = {} THEN NoPre ELSE pre
    /\ UNCHANGED <<variant, stepwise, faults, now, dataVars, knobVars, showSettings, editVars,
                   showClearAlert, alertMsg>>

\* the effect of key k runs and setItem throws: the component is unmounted
WriteThrows(k) ==
    /\ phase = "flushing"
    /\ k \in dirty
    /\ \A j \in dirty : k <= j
    /\ faults < MaxFaults
    /\ faults' = faults + 1
    /\ phase' = "down"
    /\ dirty' = {}
    /\ pre' = NoPre
    /\ targetSum' = Num(0)
    /\ progress' = Num(0)
    /\ entries' = <<>>
    /\ knobValue' = Num(DefaultKnob)
    /\ pointerActive' = FALSE
    /\ lastAngle' = NoAngle
    /\ listening' = FALSE
    /\ pressed' = FALSE
    /\ showSettings' = FALSE
    /\ editIdx' = NoIdx
    /\ editAmount' = <<>>
    /\ editName' = <<>>
    /\ showClearAlert' = FALSE
    /\ alertMsg' = <<>>
    /\ UNCHANGED <<variant, stepwise, localStorage, now>>

\* the text the effect of key k writes after the handler's render
PersistedNext(k) ==
    IF k = 1 THEN Str(String(targetSum'))
    ELSE IF k = 2 THEN Str(String(progress'))
    ELSE JSONstringify(entries')

\* a handler has changed the state: the component renders again and the effects
\* whose dependency changed run (it is the last conjunct of its handler)
Rendered(op, keys) ==
    IF stepwise
    THEN /\ dirty' = keys
         /\ phase' = IF keys = {} THEN "running" ELSE "flushing"
         /\ pre' = IF keys = {} THEN NoPre
                   ELSE [op |-> op, progress |-> progress, entries |-> entries]
         /\ UNCHANGED localStorage
    ELSE /\ localStorage' =
               [TARGET |-> IF 1 \in keys THEN PersistedNext(1) ELSE localStorage.TARGET,
                PROGRESS |-> IF 2 \in keys THEN PersistedNext(2) ELSE localStorage.PROGRESS,
                ENTRIES |-> IF 3 \in keys THEN PersistedNext(3) ELSE localStorage.ENTRIES]
         /\ UNCHANGED <<phase, dirty, pre>>

\* a handler that changes none of the three persistent states
NotRendered == UNCHANGED <<phase, dirty, pre, localStorage>>

(***************************************************************************)
(* Inputs of the handlers.                                                 *)
(***************************************************************************)
\* the arguments of addEntry: the amount, as text, and the partName
AddCalls ==
    {<<<<"0">>, <<>>>>,
     <<<<"a", "b", "c">>, <<"b", "o", "n", "u", "s">>>>,
     <<<<"5", "0", "0", "0">>, <<"b", "o", "n", "u", "s">>>>,
     <<<<"-", "2", "5", "0", "0", "0">>, <<>>>>}

\* what is typed into the amount field of the edit form
EditAmounts == {<<"a", "b", "c">>, <<"5", "0", "0">>}

\* what is typed into the label field of the edit form
EditNames == {<<"r", "e", "n", "t", " ">>}

\* what is typed into the target field
TargetInputs == {<<"0">>, <<"2", "0", "0", "0">>, <<"-", "3", "0", "0", "0">>}

\* the deltas of the four quick buttons
QuickDeltas == {-10000, -1000, 1000, 10000}

\* e.clientX of a pointer event
Positions == {0, 12, 25}

\* the index argument of startEdit and deleteEntry: every index of the array
\* and the first one past its end
Indices == 0..Len(entries)

(***************************************************************************)
(* Handlers.  A handler runs while the component is mounted and idle; it   *)
(* dismisses the alert of the previous handler.                            *)
(***************************************************************************)
Idle == phase = "running"

\* clamp(v, a, b) = Math.max(a, Math.min(b, v))
clamp(v, a, b) == MathMax(a, MathMin(b, v))

\* the upper end of the knob's range: Math.max(1000, targetSum * 2)
KnobMax(t) == MathMax(Num(StepValue), Plus(t, t))

\* the storage keys an update of progress and entries makes dirty: entries is
\* always a new array, progress is compared with Object.is
LedgerKeys(p) == IF p = progress THEN {3} ELSE {2, 3}

\* partName ? String(partName) : null   (src/App.jsx: partName || null)
NameOrNull(name) == IF name = <<>> THEN Null ELSE Str(name)

\* the amount of addEntry as a number: Number(amount)
\* (src/App.jsx: Number(amount || 0), where "" is falsy)
addEntryAmount(v, amount) ==
    IF v = "src" /\ amount = <<>> THEN Num(0) ELSE Number(amount)

\* addEntryRejects without the test for zero
addEntryRejects_NaNOnly(v, newAmount) == newAmount.nan

\* addEntry returns early: Number.isNaN(newAmount) || newAmount === 0
\* (src/App.jsx: !newAmount)
addEntryRejects(v, newAmount) ==
    IF v = "full" THEN newAmount.nan \/ newAmount.v = 0 ELSE Falsy(newAmount)

\* [entry, ...prev]
addEntryEntries(newAmount, partName) ==
    <<Obj(newAmount.v, NameOrNull(partName), now + 1)>> \o entries

\* p + newAmount
addEntryProgress(newAmount) == Plus(progress, newAmount)

\* addEntry(amount, partName) called with a text amount
AddEntry(amount, partName) ==
    /\ Idle
    /\ alertMsg' = <<>>
    /\ UNCHANGED <<variant, stepwise, faults, targetSum, knobVars, showSettings, editVars,
                   showClearAlert>>
    /\ IF addEntryRejects(variant, addEntryAmount(variant, amount))
       THEN /\ UNCHANGED <<now, progress, entries>>
            /\ NotRendered
       ELSE /\ now < MaxClock
            /\ now' = now + 1
            /\ entries' = addEntryEntries(addEntryAmount(variant, amount), partName)
            /\ progress' = addEntryProgress(addEntryAmount(variant, amount))
            /\ Rendered("addEntry",
                        LedgerKeys(addEntryProgress(addEntryAmount(variant, amount))))

\* commitKnob: addEntry(knobValue, "") and then setKnobValue(1000)
commitKnob ==
    /\ Idle
    /\ variant = "full"
    /\ alertMsg' = <<>>
    /\ knobValue' = Num(DefaultKnob)
    /\ UNCHANGED <<variant, stepwise, faults, targetSum, pointerActive, lastAngle, listening,
                   pressed, showSettings, editVars, showClearAlert>>
    /\ IF addEntryRejects(variant, knobValue)
       THEN /\ UNCHANGED <<now, progress, entries>>
            /\ NotRendered
       ELSE /\ now < MaxClock
            /\ now' = now + 1
            /\ entries' = addEntryEntries(knobValue, <<>>)
            /\ progress' = addEntryProgress(knobValue)
            /\ Rendered("commitKnob", LedgerKeys(addEntryProgress(knobValue)))

\* the model follows the knob up to MaxKnob steps
KnobInBound(v) == v.nan \/ v.v <= MaxKnob * StepValue

\* a quick button: setKnobValue(v => clamp(v + delta, 0, Math.max(1000, targetSum * 2)))
QuickButton(delta) ==
    /\ Idle
    /\ variant = "full"
    /\ alertMsg' = <<>>
    /\ knobValue' = clamp(Plus(knobValue, Num(delta)), Num(0), KnobMax(targetSum))
    /\ KnobInBound(knobValue')
    /\ UNCHANGED <<variant, stepwise, faults, phase, dirty, pre, localStorage, now, dataVars, pointerActive,
                   pressed, lastAngle, listening, showSettings, editVars, showClearAlert>>

\* pointerdown on the knob
onPointerDown(x) ==
    /\ Idle
    /\ variant = "full"
    /\ alertMsg' = <<>>
    /\ pointerActive' = TRUE
    /\ lastAngle' = x
    /\ listening' = TRUE
    /\ pressed' = TRUE
    /\ UNCHANGED <<variant, stepwise, faults, phase, dirty, pre, localStorage, now, dataVars, knobValue,
                   showSettings, editVars, showClearAlert>>

\* Math.round(deltaX / STEP_SIZE)
Steps(x) == MathRoundDiv(x - lastAngle, STEP_SIZE)

\* pointermove on the window, while the listener is attached
onPointerMove(x) ==
    /\ Idle
    /\ variant = "full"
    /\ listening
    /\ alertMsg' = <<>>
    /\ IF pointerActive /\ Steps(x) # 0
       THEN /\ knobValue' = clamp(Plus(knobValue, Num(Steps(x) * StepValue)), Num(0),
                                  KnobMax(targetSum))
            /\ KnobInBound(knobValue')
            /\ lastAngle' = x
       ELSE UNCHANGED <<knobValue, lastAngle>>
    /\ UNCHANGED <<variant, stepwise, faults, phase, dirty, pre, localStorage, now, dataVars, pointerActive,
                   pressed, listening, showSettings, editVars, showClearAlert>>

\* pointerup on the window, while the listener is attached
onPointerUp ==
    /\ Idle
    /\ variant = "full"
    /\ listening
    /\ alertMsg' = <<>>
    /\ pointerActive' = FALSE
    /\ listening' = FALSE
    /\ pressed' = FALSE
    /\ UNCHANGED <<variant, stepwise, faults, phase, dirty, pre, localStorage, now, dataVars, knobValue,
                   lastAngle, showSettings, editVars, showClearAlert>>

\* pointercancel (the browser takes the pointer over, the window loses it):
\* the effect registers no listener for it, so no code runs
PointerCancel ==
    /\ Idle
    /\ variant = "full"
    /\ pressed
    /\ pressed' = FALSE
    /\ UNCHANGED <<variant, stepwise, faults, phase, dirty, pre, localStorage, now, dataVars, knobValue,
                   pointerActive, lastAngle, listening, showSettings, editVars, showClearAlert,
                   alertMsg>>

\* pointerup while the window listeners are not attached (the cleanup of the
\* knob effect has removed them): no code runs
PointerUpUnheard ==
    /\ Idle
    /\ variant = "full"
    /\ pressed
    /\ ~listening
    /\ pressed' = FALSE
    /\ UNCHANGED <<variant, stepwise, faults, phase, dirty, pre, localStorage, now, dataVars, knobValue,
                   pointerActive, lastAngle, listening, showSettings, editVars, showClearAlert,
                   alertMsg>>

\* the Settings button of the header: setShowSettings(s => !s)
ToggleSettings ==
    /\ Idle
    /\ variant = "full"
    /\ alertMsg' = <<>>
    /\ showSettings' = ~showSettings
    /\ UNCHANGED <<variant, stepwise, faults, phase, dirty, pre, localStorage, now, dataVars, knobVars,
                   editVars, showClearAlert>>

\* the Done button and the backdrop of the drawer: cancelEdit(); setShowSettings(false)
CloseSettings ==
    /\ Idle
    /\ variant = "full"
    /\ alertMsg' = <<>>
    /\ editIdx' = NoIdx
    /\ editAmount' = <<>>
    /\ editName' = <<>>
    /\ showSettings' = FALSE
    /\ UNCHANGED <<variant, stepwise, faults, phase, dirty, pre, localStorage, now, dataVars, knobVars,
                   showClearAlert>>

\* the target field: setTargetSum(Number(e.target.value)).  The knob effect
\* depends on targetSum: when it changes, its cleanup removes the window
\* listeners.
SetTarget(text) ==
    /\ Idle
    /\ variant = "full"
    /\ alertMsg' = <<>>
    /\ targetSum' = Number(text)
    /\ listening' = IF Number(text) = targetSum THEN listening ELSE FALSE
    /\ UNCHANGED <<variant, stepwise, faults, now, progress, entries, knobValue, pointerActive,
                   pressed, lastAngle, showSettings, editVars, showClearAlert>>
    /\ Rendered("setTarget", IF Number(text) = targetSum THEN {} ELSE {1})

(***************************************************************************)
(* The entries manager.                                                    *)
(***************************************************************************)
\* cancelEdit that leaves the index of the session as it is
cancelEdit_KeepIdx ==
    /\ editIdx' = editIdx
    /\ editAmount' = <<>>
    /\ editName' = <<>>

\* cancelEdit()
cancelEdit ==
    /\ editIdx' = NoIdx
    /\ editAmount' = <<>>
    /\ editName' = <<>>

\* startEdit(idx)
startEdit(idx) ==
    /\ Idle
    /\ variant = "full"
    /\ alertMsg' = <<>>
    /\ IF Missing(entries, idx)
       THEN UNCHANGED editVars
       ELSE /\ editIdx' = idx
            /\ editAmount' = String(Num(entries[idx + 1].amount))
            /\ editName' = entries[idx + 1].partName.s
    /\ UNCHANGED <<variant, stepwise, faults, phase, dirty, pre, localStorage, now, dataVars, knobVars,
                   showSettings, showClearAlert>>

\* the amount field of the edit form: setEditAmount(ev.target.value)
SetEditAmount(text) ==
    /\ Idle
    /\ variant = "full"
    /\ alertMsg' = <<>>
    /\ editAmount' = text
    /\ UNCHANGED <<variant, stepwise, faults, phase, dirty, pre, localStorage, now, dataVars, knobVars,
                   showSettings, editIdx, editName, showClearAlert>>

\* the label field of the edit form: setEditName(ev.target.value)
SetEditName(text) ==
    /\ Idle
    /\ variant = "full"
    /\ alertMsg' = <<>>
    /\ editName' = text
    /\ UNCHANGED <<variant, stepwise, faults, phase, dirty, pre, localStorage, now, dataVars, knobVars,
                   showSettings, editIdx, editAmount, showClearAlert>>

\* the Cancel button of the edit form
CancelEdit ==
    /\ Idle
    /\ variant = "full"
    /\ alertMsg' = <<>>
    /\ cancelEdit
    /\ UNCHANGED <<variant, stepwise, faults, phase, dirty, pre, localStorage, now, dataVars, knobVars,
                   showSettings, showClearAlert>>

\* the text of the alert of saveEdit
InvalidAmountMsg == <<"Enter a valid numeric amount">>

\* copy[idx] = e on a copy of arr: an index past the end leaves holes
SetAt(arr, idx, e) ==
    [i \in 1..(IF idx + 1 > Len(arr) THEN idx + 1 ELSE Len(arr)) |->
        IF i = idx + 1 THEN e ELSE IF i <= Len(arr) THEN arr[i] ELSE Hole]

\* updatedEntry without the spread of prevEntry: the date is lost
updatedEntry_NoSpread(arr, idx, parsed, name) ==
    Obj(parsed.v, IF name = <<>> THEN Null ELSE Str(Trim(name)), 0)

\* { ...prevEntry, amount: parsed, partName: editName ? editName.trim() : null }
updatedEntry(arr, idx, parsed, name) ==
    Obj(parsed.v,
        IF name = <<>> THEN Null ELSE Str(Trim(name)),
        IF Missing(arr, idx) THEN 0 ELSE arr[idx + 1].date)

\* the entries updater of saveEdit
saveEditEntries(prev) ==
    SetAt(prev, editIdx, updatedEntry(prev, editIdx, Number(editAmount), editName))

\* Number(entries[editIdx]?.amount ?? 0)
oldAmount == IF Missing(entries, editIdx) THEN Num(0) ELSE Num(entries[editIdx + 1].amount)

\* saveEditProgress without the subtraction of the old amount: p + parsed
saveEditProgress_ForgetOld(p) == Plus(p, Number(editAmount))

\* the progress updater of saveEdit: p - old + parsed
saveEditProgress(p) == Plus(Minus(p, oldAmount), Number(editAmount))

\* saveEdit()
saveEdit ==
    /\ Idle
    /\ variant = "full"
    /\ UNCHANGED <<variant, stepwise, faults, now, targetSum, knobVars, showSettings,
                   showClearAlert>>
    /\ IF editIdx = NoIdx
       THEN /\ alertMsg' = <<>>
            /\ UNCHANGED <<progress, entries, editVars>>
            /\ NotRendered
       ELSE IF Number(editAmount).nan
       THEN /\ alertMsg' = InvalidAmountMsg
            /\ UNCHANGED <<progress, entries, editVars>>
            /\ NotRendered
       ELSE /\ alertMsg' = <<>>
            /\ entries' = saveEditEntries(entries)
            /\ progress' = saveEditProgress(progress)
            /\ cancelEdit
            /\ Rendered("saveEdit", LedgerKeys(saveEditProgress(progress)))

\* prev.filter((_, i) => i !== idx): filter does not visit holes
RECURSIVE FilterFrom(_, _, _)
FilterFrom(arr, i, idx) ==
    IF i > Len(arr) THEN <<>>
    ELSE (IF i = idx + 1 \/ arr[i].kind = "hole" THEN <<>> ELSE <<arr[i]>>)
         \o FilterFrom(arr, i + 1, idx)

\* deleteEntryEntries that removes the element after idx
deleteEntryEntries_OffByOne(prev, idx) == FilterFrom(prev, 1, idx + 1)

deleteEntryEntries(prev, idx) == FilterFrom(prev, 1, idx)

\* deleteEntryProgress that leaves progress as it is
deleteEntryProgress_Keep(p, idx) == p

\* p - Number(ent.amount)
deleteEntryProgress(p, idx) == Minus(p, Num(entries[idx + 1].amount))

\* deleteEntry(idx)
deleteEntry(idx) ==
    /\ Idle
    /\ variant = "full"
    /\ alertMsg' = <<>>
    /\ UNCHANGED <<variant, stepwise, faults, now, targetSum, knobVars, showSettings,
                   showClearAlert>>
    /\ IF Missing(entries, idx)
       THEN /\ UNCHANGED <<progress, entries, editVars>>
            /\ NotRendered
       ELSE /\ IF editIdx = idx THEN cancelEdit ELSE UNCHANGED editVars
            /\ entries' = deleteEntryEntries(entries, idx)
            /\ progress' = deleteEntryProgress(progress, idx)
            /\ Rendered("deleteEntry", LedgerKeys(deleteEntryProgress(progress, idx)))

\* clearAllEntries()
clearAllEntries ==
    /\ Idle
    /\ variant = "full"
    /\ alertMsg' = <<>>
    /\ entries' = <<>>
    /\ progress' = Num(0)
    /\ cancelEdit
    /\ showClearAlert' = FALSE
    /\ UNCHANGED <<variant, stepwise, faults, now, targetSum, knobVars, showSettings>>
    /\ Rendered("clearAll", LedgerKeys(Num(0)))

\* the Reset button of the drawer
Reset ==
    /\ Idle
    /\ variant = "full"
    /\ alertMsg' = <<>>
    /\ progress' = Num(0)
    /\ entries' = <<>>
    /\ cancelEdit
    /\ UNCHANGED <<variant, stepwise, faults, now, targetSum, knobVars, showSettings,
                   showClearAlert>>
    /\ Rendered("reset", LedgerKeys(Num(0)))

\* the Clear all button of the drawer: setShowClearAlert(true)
AskClearAll ==
    /\ Idle
    /\ variant = "full"
    /\ alertMsg' = <<>>
    /\ showClearAlert' = TRUE
    /\ UNCHANGED <<variant, stepwise, faults, phase, dirty, pre, localStorage, now, dataVars, knobVars,
                   showSettings, editVars>>

\* the No button of the confirmation: setShowClearAlert(false)
DeclineClear ==
    /\ Idle
    /\ variant = "full"
    /\ alertMsg' = <<>>
    /\ showClearAlert' = FALSE
    /\ UNCHANGED <<variant, stepwise, faults, phase, dirty, pre, localStorage, now, dataVars, knobVars,
                   showSettings, editVars>>

(***************************************************************************)
(* What is rendered: a control takes events only while it is rendered.     *)
(***************************************************************************)
\* {showSettings && ...}: the drawer with the target field, Reset, Clear all,
\* Done and the rows of the entries
DrawerShown == showSettings

\* a confirmation whose Yes and No buttons are rendered whatever showClearAlert is
AlertShown_Always == TRUE

\* {showClearAlert && ...}: the confirmation with its Yes and No buttons
AlertShown == showClearAlert

\* entries.map renders a row for index i (map does not visit holes)
RowShown(i) == i >= 0 /\ i < Len(entries) /\ entries[i + 1].kind # "hole"

\* the row at editIdx shows the edit form with its Save and Cancel buttons
FormShown == DrawerShown /\ editIdx # NoIdx /\ RowShown(editIdx)

\* row i shows its Edit and Delete buttons: editIdx === i ? null : <>...</>
ButtonsShown(i) == DrawerShown /\ RowShown(i) /\ editIdx # i

(***************************************************************************)
(* Specifications.                                                         *)
(*                                                                         *)
(* SpecLedger  the events of the rendered entries manager, the commit of   *)
(*             the knob's default value, launches.                         *)
(* SpecAPI     the functions and handlers of the ledger called with any    *)
(*             argument in any idle state, whatever is rendered.           *)
(* SpecKnob    the events of the knob, of the quick buttons and of the     *)
(*             target field, commits, launches.                            *)
(* SpecStore   the events of the entries manager with every setItem a step *)
(*             of its own, which may throw.                                *)
(***************************************************************************)
Init == InitWith(FALSE)

InitStepwise == InitWith(TRUE)

NextLedger ==
    \/ Launch
    \/ \E k \in 1..3 : WriteOk(k)
    \/ commitKnob
    \/ ToggleSettings
    \/ DrawerShown /\ CloseSettings
    \/ DrawerShown /\ Reset
    \/ DrawerShown /\ AskClearAll
    \/ AlertShown /\ clearAllEntries
    \/ AlertShown /\ DeclineClear
    \/ \E i \in Indices : ButtonsShown(i) /\ startEdit(i)
    \/ \E i \in Indices : ButtonsShown(i) /\ deleteEntry(i)
    \/ \E t \in EditAmounts : FormShown /\ SetEditAmount(t)
    \/ \E t \in EditNames : FormShown /\ SetEditName(t)
    \/ FormShown /\ saveEdit
    \/ FormShown /\ CancelEdit

SpecLedger == Init /\ [][NextLedger]_vars

NextAPI ==
    \/ Launch
    \/ \E k \in 1..3 : WriteOk(k)
    \/ \E c \in AddCalls : AddEntry(c[1], c[2])
    \/ \E i \in Indices : startEdit(i)
    \/ \E i \in Indices : deleteEntry(i)
    \/ \E t \in EditAmounts : editIdx # NoIdx /\ SetEditAmount(t)
    \/ saveEdit
    \/ CancelEdit
    \/ clearAllEntries
    \/ Reset

SpecAPI == Init /\ [][NextAPI]_vars

NextKnob ==
    \/ Launch
    \/ \E k \in 1..3 : WriteOk(k)
    \/ commitKnob
    \/ \E d \in QuickDeltas : QuickButton(d)
    \/ \E x \in Positions : onPointerDown(x)
    \/ \E x \in Positions : onPointerMove(x)
    \/ onPointerUp
    \/ PointerCancel
    \/ PointerUpUnheard
    \/ ToggleSettings
    \/ DrawerShown /\ CloseSettings
    \/ \E t \in TargetInputs : DrawerShown /\ SetTarget(t)

SpecKnob == Init /\ [][NextKnob]_vars

NextStore ==
    \/ Launch
    \/ \E k \in 1..3 : WriteOk(k)
    \/ \E k \in 1..3 : WriteThrows(k)
    \/ commitKnob
    \/ ToggleSettings
    \/ DrawerShown /\ Reset
    \/ DrawerShown /\ AskClearAll
    \/ AlertShown /\ clearAllEntries
    \/ AlertShown /\ DeclineClear
    \/ \E i \in Indices : ButtonsShown(i) /\ startEdit(i)
    \/ \E i \in Indices : ButtonsShown(i) /\ deleteEntry(i)
    \/ \E t \in EditAmounts : FormShown /\ SetEditAmount(t)
    \/ FormShown /\ saveEdit

SpecStore == InitStepwise /\ [][NextStore]_vars

(***************************************************************************)
(* Properties.                                                             *)
(***************************************************************************)
\* the component is mounted
Mounted == phase # "down"

\* a step taken by a handler of a mounted, idle component (not a launch, not
\* an effect of the mount), in the specifications whose effects are part of
\* the handler's step
HandlerStep == phase = "running" /\ phase' = "running"

\* a launch from an idle component whose effects have all run
Relaunch == phase = "running" /\ phase' # "running"

\* progress - sum(ledger amounts)
Baseline == Minus(progress, Num(SumAmounts(entries)))

\* C1 (as stated): in every state of the mounted component, the first-launch
\* default state included, progress equals the sum of the amounts of the
\* entries of the ledger.
C1_ProgressIsSum == Mounted => progress = Num(SumAmounts(entries))

\* C1 (amended): from a state in which progress equals the sum of the amounts
\* of the ledger, every step of a handler (addEntry, saveEdit, deleteEntry,
\* clearAll, reset) leads to a state in which it does again.
C1_SumPreserved ==
    [][(HandlerStep /\ progress = Num(SumAmounts(entries)))
          => progress' = Num(SumAmounts(entries'))]_vars

\* C1 witness: after a reset or clearAll, entries have been added and one has
\* been edited; progress is their sum
C1_Witness ==
    /\ phase = "running"
    /\ Len(entries) >= 2
    /\ \E i \in 1..Len(entries) : entries[i].amount = 500
    /\ progress = Num(SumAmounts(entries))

\* C2: addEntry, saveEdit (also with an edit index that points at no entry)
\* and deleteEntry leave the baseline progress - sum(ledger amounts) as it
\* was; clearAllEntries and the Reset button make it 0, and no other handler
\* changes it, so that it stays 0 until the next launch.
C2_Baseline ==
    [][/\ ((\E c \in AddCalls : AddEntry(c[1], c[2]))
            \/ saveEdit
            \/ (\E i \in Indices : deleteEntry(i)))
          => Baseline' = Baseline
       /\ (clearAllEntries \/ Reset) => Baseline' = Num(0)
       /\ (HandlerStep /\ ~(clearAllEntries \/ Reset)) => Baseline' = Baseline]_vars

\* C2 witness: saveEdit has run with an edit index past the end of the array
\* (the entry it created has no date) and the baseline is still that of the
\* first launch
C2_Witness ==
    /\ phase = "running"
    /\ \E i \in 1..Len(entries) : entries[i].kind = "obj" /\ entries[i].date = 0
    /\ Baseline = Num(DefaultProgress)

\* the state initialisers have run and no effect has written yet: the store
\* is the one the launch loaded
JustLaunched == phase = "flushing" /\ pre.op = "mount" /\ dirty = {1, 2, 3}

\* the stored progress and entries
StoredPair == <<localStorage.PROGRESS, localStorage.ENTRIES>>

\* C3: while the effects of a mutation (add, edit, delete, clearAll, reset)
\* run, and so also when one of their setItem calls throws, the store holds
\* the progress and the ledger of before the mutation, or those of after it:
\* never the one of after it with the other of before it.
C3_AtomicPersist ==
    (phase = "flushing" /\ pre.op # "mount")
        => \/ StoredPair = <<Str(String(pre.progress)), JSONstringify(pre.entries)>>
           \/ StoredPair = <<Str(String(progress)), JSONstringify(entries)>>

\* C4: a launch from the store that an idle component with a numeric target
\* and a numeric progress has persisted yields the target, the progress and
\* the ledger of that component.
C4_RoundTrip ==
    [][(Relaunch /\ ~targetSum.nan /\ ~progress.nan)
          => /\ targetSum' = targetSum
             /\ progress' = progress
             /\ entries' = entries]_vars

\* C5: a launch with a missing or unparseable stored ledger does not fail and
\* yields an empty ledger; a missing stored target yields 100000, a missing
\* stored progress 25000; each whatever the other two keys hold.
C5_LoadIndependent ==
    /\ localStorage.ENTRIES \in {NoJSON, BadJSON} => Mounted
    /\ JustLaunched =>
          /\ localStorage.ENTRIES \in {NoJSON, BadJSON} => entries = <<>>
          /\ ~localStorage.TARGET.has => targetSum = Num(100000)
          /\ ~localStorage.PROGRESS.has => progress = Num(25000)

\* a stored text that is present and is not the text of a number
NonNumeric(raw) == raw.has /\ Number(raw.s).nan

\* C6: a launch with a present, non-numeric stored target (progress) does not
\* fail and sets the target (progress) to 0.
C6_NonNumericIsZero ==
    /\ (NonNumeric(localStorage.TARGET) \/ NonNumeric(localStorage.PROGRESS)) => Mounted
    /\ JustLaunched =>
          /\ NonNumeric(localStorage.TARGET) => targetSum = Num(0)
          /\ NonNumeric(localStorage.PROGRESS) => progress = Num(0)

\* v is a number within [0, max(1000, 2 * t)]
InKnobRange(v, t) ==
    /\ ~v.nan
    /\ ~t.nan
    /\ 0 <= v.v
    /\ v.v <= (IF 2 * t.v > 1000 THEN 2 * t.v ELSE 1000)

\* C7: right after a quick button and right after a pointer move that adjusts
\* the knob, the pending value is within [0, max(1000, 2 * target)] for the
\* current target.
C7_ClampLaw ==
    [][((\E d \in QuickDeltas : QuickButton(d))
        \/ (\E x \in Positions : pointerActive /\ Steps(x) # 0 /\ onPointerMove(x)))
          => InKnobRange(knobValue', targetSum')]_vars

\* C8: addEntry(amount, label) with a zero or non-numeric amount leaves ledger,
\* progress and target as they are and raises no error; otherwise it puts the
\* one entry {amount, label or null, current time} in front of the unchanged
\* previous entries and adds amount to progress.
C8_AddEntry ==
    [][\A c \in AddCalls :
          AddEntry(c[1], c[2]) =>
             IF Number(c[1]).nan \/ Number(c[1]).v = 0
             THEN /\ UNCHANGED <<entries, progress, targetSum>>
                  /\ phase' # "down"
             ELSE /\ now' = now + 1
                  /\ entries' =
                        <<[kind |-> "obj", amount |-> Number(c[1]).v,
                           partName |-> IF c[2] = <<>> THEN Null ELSE Str(c[2]),
                           date |-> now']>> \o entries
                  /\ progress' = Plus(progress, Number(c[1]))
                  /\ targetSum' = targetSum]_vars

\* C8 witness: the first launch followed by addEntry(5000, "bonus")
C8_Witness ==
    /\ phase = "running"
    /\ progress = Num(30000)
    /\ entries = <<Obj(5000, Str(<<"b", "o", "n", "u", "s">>), 1)>>

\* C9: the Save button with a non-numeric draft amount leaves ledger, progress
\* and the edit session as they are and raises the alert; with a numeric one
\* it replaces amount and label of the entry at the session's index, keeps
\* its date, its position and the other entries, changes progress by the new
\* amount minus the old one and closes the session.
C9_SaveEdit ==
    [][(FormShown /\ saveEdit) =>
          IF Number(editAmount).nan
          THEN /\ UNCHANGED <<entries, progress, editIdx, editAmount, editName>>
               /\ alertMsg' = InvalidAmountMsg
          ELSE /\ Len(entries') = Len(entries)
               /\ \A i \in 1..Len(entries) : i # editIdx + 1 => entries'[i] = entries[i]
               /\ entries'[editIdx + 1] =
                     [entries[editIdx + 1] EXCEPT
                         !.amount = Number(editAmount).v,
                         !.partName = IF editName = <<>> THEN Null ELSE Str(Trim(editName))]
               /\ progress' =
                     Plus(progress,
                          Minus(Number(editAmount), Num(entries[editIdx + 1].amount)))
               /\ editIdx' = NoIdx
               /\ alertMsg' = <<>>]_vars

\* C9 witness: an added entry has been saved with amount 500 and label "rent"
C9_Witness ==
    /\ phase = "running"
    /\ editIdx = NoIdx
    /\ \E i \in 1..Len(entries) :
          /\ entries[i].amount = 500
          /\ entries[i].partName = Str(<<"r", "e", "n", "t">>)
          /\ entries[i].date >= 1

\* the array without the element at index i
RemoveAt(arr, i) == SubSeq(arr, 1, i) \o SubSeq(arr, i + 2, Len(arr))

\* the elements of the array, without its holes
IsElement(e) == e.kind # "hole"

Dense(arr) == SelectSeq(arr, IsElement)

\* C10: deleteEntry(i) on an index that holds an entry removes that entry and
\* no other, subtracts its amount from progress and closes the edit session
\* when it is the session of that entry; on an index that holds none it
\* changes nothing.
C10_DeleteEntry ==
    [][\A i \in Indices :
          deleteEntry(i) =>
             IF i >= Len(entries) \/ entries[i + 1].kind # "obj"
             THEN UNCHANGED <<entries, progress, targetSum, editIdx, editAmount, editName>>
             ELSE /\ entries' = Dense(RemoveAt(entries, i))
                  /\ progress' = Minus(progress, Num(entries[i + 1].amount))
                  /\ editIdx = i => editIdx' = NoIdx]_vars

\* C10 witness: two entries were added after the first launch and the older
\* one has been deleted
C10_Witness ==
    /\ phase = "running"
    /\ now = 2
    /\ Len(entries) = 1
    /\ entries[1].date = 2
    /\ progress = Num(DefaultProgress + entries[1].amount)

\* the ledger is empty, progress is 0 and no edit session is open
Wiped ==
    /\ entries = <<>>
    /\ progress = Num(0)
    /\ editIdx = NoIdx
    /\ editAmount = <<>>
    /\ editName = <<>>

\* C11: from any state, clearAllEntries and the Reset button both empty the
\* ledger, set progress to 0, discard the edit session and leave the target
\* as it is; applied to a state they have produced they change none of these.
C11_ClearIsReset ==
    [][(clearAllEntries \/ Reset) =>
          /\ entries' = <<>>
          /\ progress' = Num(0)
          /\ editIdx' = NoIdx
          /\ editAmount' = <<>>
          /\ editName' = <<>>
          /\ targetSum' = targetSum
          /\ Wiped => UNCHANGED <<entries, progress, editVars, targetSum>>]_vars

\* C11 witness: entries were added and the ledger has been wiped since (only
\* clearAllEntries and Reset bring the baseline to 0), with the target loaded
\* at the launch
C11_Witness ==
    /\ phase = "running"
    /\ now >= 2
    /\ Wiped
    /\ targetSum = Num(DefaultTarget)

\* the step of the handler clearAllEntries (its effects start with it)
ClearAllStep == phase = "running" /\ phase' = "flushing" /\ pre'.op = "clearAll"

\* C12: clearAllEntries runs only while the confirmation is shown, and wipes
\* ledger and progress; the confirmation opens only by the Clear all button,
\* which leaves ledger, progress and target as they are, as does the No
\* button; after Yes and after No the confirmation is closed.
C12_TwoStepClear ==
    [][/\ ClearAllStep =>
             /\ showClearAlert
             /\ ~showClearAlert'
             /\ entries' = <<>>
             /\ progress' = Num(0)
       /\ (~showClearAlert /\ showClearAlert') =>
             /\ AskClearAll
             /\ UNCHANGED <<entries, progress, targetSum>>
       /\ AskClearAll => (showClearAlert' /\ UNCHANGED <<entries, progress, targetSum>>)
       /\ (showClearAlert /\ ~showClearAlert' /\ phase' = "running") =>
             UNCHANGED <<entries, progress, targetSum>>
       /\ (showClearAlert /\ DeclineClear) =>
             (~showClearAlert' /\ UNCHANGED <<entries, progress, targetSum>>)]_vars

\* C12 witness: the Yes button has been pressed on a ledger with entries; its
\* effects are running and the confirmation is closed
C12_Witness ==
    /\ phase = "flushing"
    /\ pre.op = "clearAll"
    /\ pre.entries # <<>>
    /\ entries = <<>>
    /\ ~showClearAlert

\* the control is Idle: the active flag is false and the reference position
\* is reset
KnobIdle == ~pointerActive /\ lastAngle = NoAngle

\* C13: a pointerdown on the knob starts a drag; whenever no pointer is down
\* any more (after a release anywhere, after a cancellation) the control is
\* Idle, and a move event that arrives then does not change the pending value.
C13_DragMachine ==
    [][/\ (\E x \in Positions : onPointerDown(x)) => pointerActive'
       /\ (phase' = "running" /\ ~pressed') => KnobIdle'
       /\ (~pressed /\ \E x \in Positions : onPointerMove(x)) => knobValue' = knobValue]_vars

\* the whole steps in a displacement of d px at q px a step: the remainder
\* under q px is no step, in either direction
WholeSteps(d, q) == IF d >= 0 THEN d \div q ELSE -((-d) \div q)

\* C14: a move event of a drag changes the pending value by one step of 1000
\* for every whole 10 px of displacement since the reference position, and by
\* nothing for the remainder: 25 px are 2 steps.
C14_DragSteps ==
    [][\A x \in Positions :
          (pointerActive /\ ~knobValue.nan /\ ~targetSum.nan /\ onPointerMove(x)) =>
             knobValue' = clamp(Plus(knobValue,
                                     Num(WholeSteps(x - lastAngle, STEP_SIZE) * StepValue)),
                                Num(0), KnobMax(targetSum))]_vars

\* C15: the commit button, for every pending value v: the pending value is
\* 1000 afterwards; when v is 0 ledger and progress are as before, otherwise
\* the ledger has gained the head entry {v, null, current time} and progress
\* has grown by v.
C15_Commit ==
    [][commitKnob =>
          /\ knobValue' = Num(1000)
          /\ IF knobValue = Num(0)
             THEN UNCHANGED <<entries, progress>>
             ELSE /\ entries' = <<[kind |-> "obj", amount |-> knobValue.v,
                                   partName |-> Null, date |-> now']>> \o entries
                  /\ progress' = Plus(progress, knobValue)]_vars

\* C16: while an edit session is open, the Delete button of another row
\* leaves the session bound to its entry: the session's index still holds an
\* entry, and it is the entry it held before the deletion (the one that the
\* Save button then modifies).
C16_SessionBound ==
    [][\A i \in Indices :
          (editIdx # NoIdx /\ ~Missing(entries, editIdx) /\ ButtonsShown(i) /\ deleteEntry(i)) =>
             /\ editIdx' # NoIdx
             /\ ~Missing(entries', editIdx')
             /\ entries'[editIdx' + 1] = entries[editIdx + 1]]_vars

\* C17: in every state of the mounted component with a numeric target and a
\* numeric pending value, the pending value is within
\* [0, max(1000, 2 * target)] for the current target, also after the target
\* field has changed the target and after a commit.
C17_KnobInRange ==
    (Mounted /\ ~targetSum.nan /\ ~knobValue.nan) => InKnobRange(knobValue, targetSum)

====
